---- MODULE Spec2Model ----
(***************************************************************************)
(* Model of homeassistant/components/esphome/media_player.py: the ESPHome  *)
(* media player entity.  Three families of behaviour are modelled:         *)
(*   - the read-only properties `state` and `repeat`, which translate the  *)
(*     device enums of the state snapshot through _STATES/_REPEAT_MODES;   *)
(*   - `supported_features`, which folds the 17 capability booleans of the *)
(*     static info into a MediaPlayerEntityFeature mask;                   *)
(*   - the async command methods, each of which awaits one                 *)
(*     client.media_player_command call (play_media resolving media-source *)
(*     identifiers first).                                                 *)
(***************************************************************************)
EXTENDS Integers, Sequences, FiniteSets, TLC

VARIABLES
    static_info,   \* self._static_info: key and the 17 supports_* booleans
    has_state,     \* self._has_state: a snapshot has been received
    _state,        \* self._state: the snapshot [state, repeat_mode, muted]
    ret,           \* what the last property read gave its caller; reset
                   \* when the data it was read from is replaced
    task,          \* per host task: the command method invocation it runs
    failed         \* some client call has failed so far

vars == <<static_info, has_state, _state, ret, task, failed>>

None == "None"

----------------------------------------------------------------------------
(* Enum vocabularies.  Device-side members are written with their enum     *)
(* class, host-side members by their string value, so that the two spaces  *)
(* are disjoint and a mapping is never the identity.                       *)

EspStatesMapped ==
    { "EspMediaPlayerState.IDLE", "EspMediaPlayerState.PLAYING",
      "EspMediaPlayerState.PAUSED", "EspMediaPlayerState.ON",
      "EspMediaPlayerState.OFF", "EspMediaPlayerState.STANDBY",
      "EspMediaPlayerState.BUFFERING" }

\* A raw play-state the device can report that the table has no entry for.
EspStateUnmapped == "EspMediaPlayerState.NONE"

EspStates == EspStatesMapped \cup {EspStateUnmapped}

EspRepeatMapped ==
    { "EspRepeatMode.OFF", "EspRepeatMode.ONE", "EspRepeatMode.ALL" }

EspRepeatUnmapped == "EspRepeatMode.UNKNOWN"

EspRepeats == EspRepeatMapped \cup {EspRepeatUnmapped}

HassStates ==
    { "idle", "playing", "paused", "on", "off", "standby", "buffering" }

HassRepeatModes == { "off", "one", "all" }

----------------------------------------------------------------------------
(* EsphomeEnumMapper (enum_mapper.py): a table queried both ways, failing  *)
(* with UnmappedValueError, naming the raw value, for a value it lacks.    *)

Returned(v) == [kind |-> "return", val |-> v]

Raised(e, v) == [kind |-> e, val |-> v]

EsphomeEnumMapper(mapping) ==
    [ mapping |-> mapping,
      inverse |-> [ h \in { mapping[k] : k \in DOMAIN mapping } |->
                        CHOOSE k \in DOMAIN mapping : mapping[k] = h ] ]

from_esphome(mapper, value) ==
    IF value \in DOMAIN mapper.mapping
    THEN Returned(mapper.mapping[value])
    ELSE Raised("UnmappedValueError", value)

from_hass(mapper, value) ==
    IF value \in DOMAIN mapper.inverse
    THEN Returned(mapper.inverse[value])
    ELSE Raised("UnmappedValueError", value)

_STATES_two_to_one ==
    EsphomeEnumMapper(
        ("EspMediaPlayerState.IDLE" :> "idle") @@
        ("EspMediaPlayerState.PLAYING" :> "playing") @@
        ("EspMediaPlayerState.PAUSED" :> "paused") @@
        ("EspMediaPlayerState.ON" :> "on") @@
        ("EspMediaPlayerState.OFF" :> "off") @@
        ("EspMediaPlayerState.STANDBY" :> "off") @@
        ("EspMediaPlayerState.BUFFERING" :> "buffering"))

_STATES ==
    EsphomeEnumMapper(
        ("EspMediaPlayerState.IDLE" :> "idle") @@
        ("EspMediaPlayerState.PLAYING" :> "playing") @@
        ("EspMediaPlayerState.PAUSED" :> "paused") @@
        ("EspMediaPlayerState.ON" :> "on") @@
        ("EspMediaPlayerState.OFF" :> "off") @@
        ("EspMediaPlayerState.STANDBY" :> "standby") @@
        ("EspMediaPlayerState.BUFFERING" :> "buffering"))

_REPEAT_MODES ==
    EsphomeEnumMapper(
        ("EspRepeatMode.OFF" :> "off") @@
        ("EspRepeatMode.ONE" :> "one") @@
        ("EspRepeatMode.ALL" :> "all"))

----------------------------------------------------------------------------
(* Read-only properties.                                                   *)

\* The esphome_state_property decorator: absent until a snapshot arrived.
esphome_state_property(result) ==
    IF ~has_state THEN Returned(None) ELSE result

state_or_none ==
    esphome_state_property(
        IF _state.state \in DOMAIN _STATES.mapping
        THEN from_esphome(_STATES, _state.state)
        ELSE Returned(None))

state == esphome_state_property(from_esphome(_STATES, _state.state))

repeat == esphome_state_property(from_esphome(_REPEAT_MODES, _state.repeat_mode))

is_volume_muted == esphome_state_property(Returned(_state.muted))

----------------------------------------------------------------------------
(* supported_features.  A MediaPlayerEntityFeature mask is modelled by the *)
(* set of members set in it: 0 is {}, `a | b` is a \cup b.                 *)

Capabilities ==
    { "supports_pause", "supports_seek", "supports_volume_set",
      "supports_volume_mute", "supports_previous_track",
      "supports_next_track", "supports_turn_on", "supports_turn_off",
      "supports_play_media", "supports_volume_step",
      "supports_select_source", "supports_stop", "supports_clear_playlist",
      "supports_play", "supports_shuffle_set", "supports_select_sound_mode",
      "supports_repeat_set" }

\* `if cond: flags = feature` in place of `flags |= feature`.
AssignFlag(flags, cond, feature) == IF cond THEN feature ELSE flags

\* `if cond: flags |= feature`
OrFlag(flags, cond, feature) == IF cond THEN flags \cup feature ELSE flags

supported_features ==
    LET f0  == {}
        f1  == OrFlag(f0,  static_info.supports_pause, {"PAUSE"})
        f2  == OrFlag(f1,  static_info.supports_seek, {"SEEK"})
        f3  == OrFlag(f2,  static_info.supports_volume_set, {"VOLUME_SET"})
        f4  == OrFlag(f3,  static_info.supports_volume_mute, {"VOLUME_MUTE"})
        f5  == OrFlag(f4,  static_info.supports_previous_track, {"PREVIOUS_TRACK"})
        f6  == OrFlag(f5,  static_info.supports_next_track, {"NEXT_TRACK"})
        f7  == OrFlag(f6,  static_info.supports_turn_on, {"TURN_ON"})
        f8  == OrFlag(f7,  static_info.supports_turn_off, {"TURN_OFF"})
        f9  == OrFlag(f8,  static_info.supports_play_media,
                           {"PLAY_MEDIA"} \cup {"BROWSE_MEDIA"})
        f10 == OrFlag(f9,  static_info.supports_volume_step, {"VOLUME_STEP"})
        f11 == OrFlag(f10, static_info.supports_select_source, {"SELECT_SOURCE"})
        f12 == OrFlag(f11, static_info.supports_stop, {"STOP"})
        f13 == OrFlag(f12, static_info.supports_clear_playlist, {"CLEAR_PLAYLIST"})
        f14 == OrFlag(f13, static_info.supports_play, {"PLAY"})
        f15 == OrFlag(f14, static_info.supports_shuffle_set, {"SHUFFLE_SET"})
        f16 == OrFlag(f15, static_info.supports_select_sound_mode,
                           {"SELECT_SOUND_MODE"})
        f17 == OrFlag(f16, static_info.supports_repeat_set, {"REPEAT_SET"})
    IN  f17

----------------------------------------------------------------------------
(* The entity's data, as the connection layer provides it.                 *)

\* Keys the connection layer may have given the entity.
Keys == {"key-7", "key-9"}

NoCaps == [c \in Capabilities |-> FALSE]

StaticInfo(key, caps) == caps @@ ("key" :> key)

NoSnapshot == [state |-> None, repeat_mode |-> None, muted |-> None]

Snapshots == [state : EspStates, repeat_mode : EspRepeats, muted : BOOLEAN]

NoRead == [prop |-> None, out |-> Returned(None)]

Tasks == {"t1", "t2"}

\* A URL or media identifier: [scheme, host, path, signed].
Url(scheme, host, path) ==
    [scheme |-> scheme, host |-> host, path |-> path, signed |-> FALSE]

\* No URL: the local sourced_media before anything was resolved.
NoUrl == Url(None, None, None)

\* A host task with no command method running.  Of a running invocation it
\* holds the method and argument, the local sourced_media.url of play_media,
\* the requests it has passed to client.media_player_command, the outcomes
\* of those client calls, and what the method gave its caller.
IdleTask ==
    [ pc |-> "idle", method |-> None, arg |-> None, sourced_media |-> NoUrl,
      after_failure |-> FALSE, calls |-> <<>>, completed |-> <<>>,
      out |-> Returned(None) ]

----------------------------------------------------------------------------
(* Property reads: the snapshot is replaced by the connection layer, the   *)
(* host reads `state` and `repeat`.                                        *)

InitProps ==
    /\ static_info = StaticInfo("key-7", NoCaps)
    /\ has_state = FALSE
    /\ _state = NoSnapshot
    /\ ret = NoRead
    /\ task = [t \in Tasks |-> IdleTask]
    /\ failed = FALSE

\* The connection layer replaces the snapshot by reference.
OnStateUpdate(s) ==
    /\ _state' = s
    /\ has_state' = TRUE
    /\ ret' = NoRead
    /\ UNCHANGED <<static_info, task, failed>>

ReadState ==
    /\ ret' = [prop |-> "state", out |-> state]
    /\ UNCHANGED <<static_info, has_state, _state, task, failed>>

ReadRepeat ==
    /\ ret' = [prop |-> "repeat", out |-> repeat]
    /\ UNCHANGED <<static_info, has_state, _state, task, failed>>

ReadIsVolumeMuted ==
    /\ ret' = [prop |-> "is_volume_muted", out |-> is_volume_muted]
    /\ UNCHANGED <<static_info, has_state, _state, task, failed>>

NextProps ==
    \/ \E s \in Snapshots : OnStateUpdate(s)
    \/ ReadState
    \/ ReadRepeat
    \/ ReadIsVolumeMuted

SpecProps == InitProps /\ [][NextProps]_vars

----------------------------------------------------------------------------
(* Feature projection: any capability descriptor, re-discovery turning one *)
(* capability on, the host reading supported_features.                     *)

InitFeatures ==
    /\ static_info \in { StaticInfo("key-7", caps) : caps \in [Capabilities -> BOOLEAN] }
    /\ has_state = FALSE
    /\ _state = NoSnapshot
    /\ ret = NoRead
    /\ task = [t \in Tasks |-> IdleTask]
    /\ failed = FALSE

\* Device re-discovery replaces the descriptor; here with capability c on.
OnStaticInfoUpdate(c) ==
    /\ ~static_info[c]
    /\ static_info' = [static_info EXCEPT ![c] = TRUE]
    /\ ret' = NoRead
    /\ UNCHANGED <<has_state, _state, task, failed>>

ReadSupportedFeatures ==
    /\ ret' = [prop |-> "supported_features", out |-> Returned(supported_features)]
    /\ UNCHANGED <<static_info, has_state, _state, task, failed>>

NextFeatures ==
    \/ \E c \in Capabilities : OnStaticInfoUpdate(c)
    \/ ReadSupportedFeatures

SpecFeatures == InitFeatures /\ [][NextFeatures]_vars

----------------------------------------------------------------------------
(* Command methods.  Request(key, kwargs) is one call                      *)
(*   self._client.media_player_command(key, **kwargs)                      *)
(* the keyword arguments being exactly the ones the method passes.         *)

Request(key, kwargs) == [key |-> key, kwargs |-> kwargs]

async_media_pause ==
    Request(static_info.key, [command |-> "MediaPlayerCommand.PAUSE"])

\* The position passed under the name of another method's parameter.
async_media_seek_as_volume(position) ==
    Request(static_info.key,
            [command |-> "MediaPlayerCommand.SEEK", volume_level |-> position])

async_media_seek(position) ==
    Request(static_info.key,
            [command |-> "MediaPlayerCommand.SEEK", seek_position |-> position])

async_set_volume_level(volume) ==
    Request(static_info.key,
            [command |-> "MediaPlayerCommand.VOLUME_SET", volume_level |-> volume])

\* One discriminant for both, the flag passed as a payload.
async_mute_volume_with_payload(mute) ==
    Request(static_info.key,
            [command |-> "MediaPlayerCommand.MUTE", mute |-> mute])

async_mute_volume(mute) ==
    Request(static_info.key,
            [command |-> IF mute THEN "MediaPlayerCommand.MUTE"
                                 ELSE "MediaPlayerCommand.UNMUTE"])

async_media_previous_track ==
    Request(static_info.key, [command |-> "MediaPlayerCommand.PREVIOUS_TRACK"])

async_media_next_track ==
    Request(static_info.key, [command |-> "MediaPlayerCommand.NEXT_TRACK"])

async_turn_on ==
    Request(static_info.key, [command |-> "MediaPlayerCommand.TURN_ON"])

async_turn_off ==
    Request(static_info.key, [command |-> "MediaPlayerCommand.TURN_OFF"])

async_volume_up ==
    Request(static_info.key, [command |-> "MediaPlayerCommand.VOLUME_UP"])

async_volume_down ==
    Request(static_info.key, [command |-> "MediaPlayerCommand.VOLUME_DOWN"])

async_select_source(source) ==
    Request(static_info.key,
            [command |-> "MediaPlayerCommand.SELECT_SOURCE", source |-> source])

async_media_stop ==
    Request(static_info.key, [command |-> "MediaPlayerCommand.STOP"])

async_clear_playlist ==
    Request(static_info.key, [command |-> "MediaPlayerCommand.CLEAR_PLAYLIST"])

async_media_play ==
    Request(static_info.key, [command |-> "MediaPlayerCommand.PLAY"])

async_set_shuffle(shuffle) ==
    Request(static_info.key,
            [command |-> "MediaPlayerCommand.SHUFFLE_SET", shuffle_set |-> shuffle])

async_select_sound_mode(sound_mode) ==
    Request(static_info.key,
            [command |-> "MediaPlayerCommand.SELECT_SOUND_MODE",
             sound_mode |-> sound_mode])

\* The host repeat mode passed on without translation.
async_set_repeat_untranslated(repeat_mode) ==
    Returned(Request(static_info.key,
        [command |-> "MediaPlayerCommand.SELECT_SOUND_MODE",
         repeat |-> repeat_mode]))

\* The repeat argument is evaluated first; a mapper failure leaves the method
\* before the client is called.
async_set_repeat(repeat_mode) ==
    LET r == from_hass(_REPEAT_MODES, repeat_mode)
    IN  IF r.kind = "return"
        THEN Returned(Request(static_info.key,
                 [command |-> "MediaPlayerCommand.SELECT_SOUND_MODE",
                  repeat |-> r.val]))
        ELSE r

----------------------------------------------------------------------------
(* play_media and the host helpers it calls.                               *)

HassHost == "hass.local:8123"

\* media_source.is_media_source_id: the identifier has the media-source scheme.
is_media_source_id(media_id) == media_id.scheme = "media-source"

\* async_process_play_media_url: a URL of another scheme or another host is
\* left alone; a path of this host is signed and made absolute.
async_process_play_media_url(media_id) ==
    IF media_id.scheme \notin {"", "http", "https"} THEN media_id
    ELSE IF media_id.host # "" /\ media_id.host # HassHost THEN media_id
    ELSE [scheme |-> "http", host |-> HassHost, path |-> media_id.path,
          signed |-> TRUE]

\* media_source.async_resolve_media: what resolving an identifier can give.
ResolveOutcomes(media_id) ==
    { Returned(Url("http", "cdn.example.org", media_id.path)),
      Returned(Url("", "", media_id.path)),
      Raised("Unresolvable", None) }

\* Lines 236-239: process the URL, then the single client call.
play_media_request(media_id) ==
    Request(static_info.key,
            [media_url |-> async_process_play_media_url(media_id)])

----------------------------------------------------------------------------
(* Invocations the host can make.                                          *)

Positions == {0, 30}
VolumeLevels == {0, 1}
Sources == {"HDMI", "AUX"}
SoundModes == {"ROCK", "JAZZ"}
MediaIds ==
    { Url("media-source", "tts", "/hello.mp3"),
      Url("http", "radio.example.org", "/stream.mp3"),
      Url("", "", "/media/local/song.mp3") }

NoArgMethods ==
    { "async_media_pause", "async_media_previous_track",
      "async_media_next_track", "async_turn_on", "async_turn_off",
      "async_volume_up", "async_volume_down", "async_media_stop",
      "async_clear_playlist", "async_media_play" }

ArgsOf(m) ==
    CASE m = "async_media_seek" -> Positions
      [] m = "async_set_volume_level" -> VolumeLevels
      [] m = "async_mute_volume" -> BOOLEAN
      [] m = "async_select_source" -> Sources
      [] m = "async_set_shuffle" -> BOOLEAN
      [] m = "async_select_sound_mode" -> SoundModes
      [] m = "async_set_repeat" -> HassRepeatModes
      [] m = "async_play_media" -> MediaIds
      [] OTHER -> {None}

Methods ==
    NoArgMethods \cup
    { "async_media_seek", "async_set_volume_level", "async_mute_volume",
      "async_select_source", "async_set_shuffle", "async_select_sound_mode",
      "async_set_repeat", "async_play_media" }

\* What a one-step command method does up to its await: the request it
\* passes to the client, or the exception raised while building it.
CommandStep(m, a) ==
    CASE m = "async_media_pause" -> Returned(async_media_pause)
      [] m = "async_media_seek" -> Returned(async_media_seek(a))
      [] m = "async_set_volume_level" -> Returned(async_set_volume_level(a))
      [] m = "async_mute_volume" -> Returned(async_mute_volume(a))
      [] m = "async_media_previous_track" -> Returned(async_media_previous_track)
      [] m = "async_media_next_track" -> Returned(async_media_next_track)
      [] m = "async_turn_on" -> Returned(async_turn_on)
      [] m = "async_turn_off" -> Returned(async_turn_off)
      [] m = "async_volume_up" -> Returned(async_volume_up)
      [] m = "async_volume_down" -> Returned(async_volume_down)
      [] m = "async_select_source" -> Returned(async_select_source(a))
      [] m = "async_media_stop" -> Returned(async_media_stop)
      [] m = "async_clear_playlist" -> Returned(async_clear_playlist)
      [] m = "async_media_play" -> Returned(async_media_play)
      [] m = "async_set_shuffle" -> Returned(async_set_shuffle(a))
      [] m = "async_select_sound_mode" -> Returned(async_select_sound_mode(a))
      [] m = "async_set_repeat" -> async_set_repeat(a)

\* The method is left, normally or by an exception.
Finish(tk, out) == [tk EXCEPT !.pc = "done", !.out = out]

\* The client call started but not awaited: the method returns at once.
Submit_not_awaited(tk, req) ==
    [tk EXCEPT !.pc = "done", !.calls = Append(@, req)]

\* The method calls the client and is suspended on the call.
Submit(tk, req) == [tk EXCEPT !.pc = "awaiting", !.calls = Append(@, req)]

\* The identifier forwarded without being resolved.
async_play_media_unresolved(tk, media_id) ==
    Submit(tk, play_media_request(media_id))

\* async_play_media up to its first await (lines 227-239).
async_play_media(tk, media_id) ==
    IF is_media_source_id(media_id)
    THEN [tk EXCEPT !.pc = "resolving"]
    ELSE Submit(tk, play_media_request(media_id))

\* async_play_media from the completion of async_resolve_media on.
async_play_media_resolved(tk, r) ==
    IF r.kind = "return"
    THEN Submit([tk EXCEPT !.sourced_media = r.val], play_media_request(r.val))
    ELSE Finish(tk, r)

\* A failed client call is tried once more.
AfterClientCall_retry(tk, o) ==
    IF o.kind # "return" /\ Len(tk.calls) < 2
    THEN [tk EXCEPT !.completed = Append(@, o), !.calls = Append(@, tk.calls[1])]
    ELSE Finish([tk EXCEPT !.completed = Append(@, o)], o)

\* A command method from the completion of its client call on: nothing is
\* left to run, the call's outcome is the method's.
AfterClientCall(tk, o) ==
    Finish([tk EXCEPT !.completed = Append(@, o)], o)

ClientErrors == {"APIConnectionError", "TimeoutAPIError"}

ClientOutcomes ==
    {Returned(None)} \cup { Raised(e, None) : e \in ClientErrors }

----------------------------------------------------------------------------
(* Command forwarding: host tasks invoke command methods; the media-source *)
(* resolver and the device client complete the calls awaited on them.      *)

Init ==
    /\ static_info \in { StaticInfo(k, NoCaps) : k \in Keys }
    /\ has_state = FALSE
    /\ _state = NoSnapshot
    /\ ret = NoRead
    /\ task = [t \in Tasks |-> IdleTask]
    /\ failed = FALSE

\* Task t calls method m with argument a; it runs to its first await.
Invoke(t, m, a) ==
    /\ task[t].pc \in {"idle", "done"}
    /\ LET tk == [IdleTask EXCEPT !.method = m, !.arg = a,
                                  !.after_failure = failed]
           step == CommandStep(m, a)
       IN  task' = [task EXCEPT ![t] =
                IF m = "async_play_media" THEN async_play_media(tk, a)
                ELSE IF step.kind = "return" THEN Submit(tk, step.val)
                ELSE Finish(tk, step)]
    /\ UNCHANGED <<static_info, has_state, _state, ret, failed>>

\* async_resolve_media completes, with a URL or an exception.
ResolveDone(t) ==
    /\ task[t].pc = "resolving"
    /\ \E r \in ResolveOutcomes(task[t].arg) :
           task' = [task EXCEPT ![t] = async_play_media_resolved(@, r)]
    /\ UNCHANGED <<static_info, has_state, _state, ret, failed>>

\* The client call of task t completes, normally or with an exception.
ClientDone(t, o) ==
    /\ task[t].pc = "awaiting"
    /\ task' = [task EXCEPT ![t] = AfterClientCall(@, o)]
    /\ failed' = (failed \/ o.kind # "return")
    /\ UNCHANGED <<static_info, has_state, _state, ret>>

Next ==
    \/ \E t \in Tasks, m \in Methods : \E a \in ArgsOf(m) : Invoke(t, m, a)
    \/ \E t \in Tasks : ResolveDone(t)
    \/ \E t \in Tasks, o \in ClientOutcomes : ClientDone(t, o)

Spec == Init /\ [][Next]_vars

----------------------------------------------------------------------------
(* Properties of the command methods, checked under Spec.                  *)

Running == { t \in Tasks : task[t].pc # "idle" }

\* The command discriminant of a request; None when no command= was passed.
Discriminant(req) ==
    IF "command" \in DOMAIN req.kwargs THEN req.kwargs.command ELSE None

\* play_media left by the failure of its media-source resolution.
ResolutionFailed(tk) ==
    /\ tk.method = "async_play_media"
    /\ is_media_source_id(tk.arg)
    /\ tk.sourced_media = NoUrl
    /\ tk.pc = "done"
    /\ tk.calls = <<>>
    /\ tk.out = Raised("Unresolvable", None)

\* C1 as stated: every invocation of a command method, once it is over, has
\* submitted exactly one request, carrying the entity's key, and the client
\* call for it has completed.
C1_ExactlyOneRequestPerInvocation ==
    \A t \in Running :
        task[t].pc = "done" =>
            /\ Len(task[t].calls) = 1
            /\ task[t].calls[1].key = static_info.key
            /\ Len(task[t].completed) = 1

\* C1 as amended: an invocation never submits more than one request, every
\* request carries the entity's key, and an invocation that is over has
\* submitted exactly one request whose client call has completed, unless it
\* is a play_media whose media-source resolution failed, which submitted
\* none.
C1_OneRequestUnlessResolutionFails ==
    \A t \in Running :
        LET tk == task[t] IN
        /\ Len(tk.calls) <= 1
        /\ \A i \in DOMAIN tk.calls : tk.calls[i].key = static_info.key
        /\ Len(tk.completed) <= Len(tk.calls)
        /\ tk.pc = "awaiting" => Len(tk.calls) = 1 /\ tk.completed = <<>>
        /\ tk.pc = "done" =>
              \/ ResolutionFailed(tk)
              \/ /\ Len(tk.calls) = 1
                 /\ Len(tk.completed) = 1
                 /\ tk.out = tk.completed[1]

\* A method has returned normally with its one request submitted and
\* completed, earlier invocations (one of them failed) having gone before.
C1_Witness ==
    \E t \in Running :
        /\ task[t].pc = "done"
        /\ task[t].after_failure
        /\ task[t].out = Returned(None)
        /\ Len(task[t].calls) = 1
        /\ Len(task[t].completed) = 1

PlayingSourced ==
    { t \in Running : /\ task[t].method = "async_play_media"
                      /\ is_media_source_id(task[t].arg) }

\* C2 as stated: play_media of a media-source identifier submits nothing
\* while the identifier is being resolved, and the media_url of its request
\* is the resolved URL, not the identifier.
C2_MediaUrlIsResolvedUrl ==
    \A t \in PlayingSourced :
        LET tk == task[t] IN
        /\ tk.pc = "resolving" => tk.calls = <<>>
        /\ tk.calls # <<>> =>
              /\ tk.calls[1].kwargs.media_url = tk.sourced_media
              /\ tk.calls[1].kwargs.media_url # tk.arg

\* C2 as amended: play_media of a media-source identifier submits nothing
\* while the identifier is being resolved, and the media_url of its single
\* request is the resolved URL as async_process_play_media_url returns it,
\* not the identifier.
C2_MediaUrlIsProcessedResolvedUrl ==
    \A t \in PlayingSourced :
        LET tk == task[t] IN
        /\ tk.pc = "resolving" => tk.calls = <<>> /\ tk.sourced_media = NoUrl
        /\ tk.calls # <<>> =>
              /\ Len(tk.calls) = 1
              /\ tk.sourced_media # NoUrl
              /\ DOMAIN tk.calls[1].kwargs = {"media_url"}
              /\ tk.calls[1].kwargs.media_url =
                     async_process_play_media_url(tk.sourced_media)
              /\ tk.calls[1].kwargs.media_url # tk.arg

\* A media-source identifier was resolved to a path of this host, and the
\* request carries that path signed and made absolute.
C2_Witness ==
    \E t \in PlayingSourced :
        /\ task[t].calls # <<>>
        /\ task[t].sourced_media # NoUrl
        /\ task[t].sourced_media.host = ""
        /\ task[t].calls[1].kwargs.media_url.host = HassHost
        /\ task[t].calls[1].kwargs.media_url.signed

\* C3: set_repeat(m), for m in {off, one, all}, submits exactly one request,
\* whose repeat parameter is the device repeat mode the table pairs with m
\* (EspRepeatMode.ALL for all).
C3_SetRepeatCarriesDeviceEncoding ==
    \A t \in Running :
        task[t].method = "async_set_repeat" =>
            LET tk == task[t] IN
            /\ tk.arg \in HassRepeatModes
            /\ Len(tk.calls) = 1
            /\ "repeat" \in DOMAIN tk.calls[1].kwargs
            /\ tk.calls[1].kwargs.repeat \in EspRepeatMapped
            /\ _REPEAT_MODES.mapping[tk.calls[1].kwargs.repeat] = tk.arg
            /\ tk.arg = "all" => tk.calls[1].kwargs.repeat = "EspRepeatMode.ALL"

\* set_repeat(all) has submitted its request.
C3_Witness ==
    \E t \in Running :
        /\ task[t].method = "async_set_repeat"
        /\ task[t].arg = "all"
        /\ task[t].pc = "done"
        /\ task[t].calls[1].kwargs.repeat = "EspRepeatMode.ALL"

\* C4: mute(true) submits a request with discriminant MUTE, mute(false) one
\* with discriminant UNMUTE, and neither carries anything but the
\* discriminant.
C4_MuteUsesTwoDiscriminants ==
    \A t \in Running :
        task[t].method = "async_mute_volume" =>
            LET tk == task[t] IN
            /\ Len(tk.calls) = 1
            /\ DOMAIN tk.calls[1].kwargs = {"command"}
            /\ tk.arg = TRUE =>
                  tk.calls[1].kwargs.command = "MediaPlayerCommand.MUTE"
            /\ tk.arg = FALSE =>
                  tk.calls[1].kwargs.command = "MediaPlayerCommand.UNMUTE"

\* Both mute(true) and mute(false) have submitted their requests.
C4_Witness ==
    \E t, u \in Running :
        /\ task[t].method = "async_mute_volume" /\ task[t].arg = TRUE
        /\ task[u].method = "async_mute_volume" /\ task[u].arg = FALSE
        /\ Discriminant(task[t].calls[1]) # Discriminant(task[u].calls[1])

NamedParameters ==
    { "seek_position", "volume_level", "source", "sound_mode", "shuffle_set",
      "repeat", "media_url" }

\* The named parameters each method passes.
ParametersOf(m) ==
    CASE m = "async_media_seek" -> {"seek_position"}
      [] m = "async_set_volume_level" -> {"volume_level"}
      [] m = "async_select_source" -> {"source"}
      [] m = "async_select_sound_mode" -> {"sound_mode"}
      [] m = "async_set_shuffle" -> {"shuffle_set"}
      [] m = "async_set_repeat" -> {"repeat"}
      [] m = "async_play_media" -> {"media_url"}
      [] OTHER -> {}

\* C5 as stated: every request submitted, play_media's included, carries
\* the device key and a command discriminant, and besides them only named
\* parameters of its command.
C5_EveryRequestHasKeyAndDiscriminant ==
    \A t \in Running :
        \A i \in DOMAIN task[t].calls :
            LET req == task[t].calls[i] IN
            /\ req.key = static_info.key
            /\ "command" \in DOMAIN req.kwargs
            /\ DOMAIN req.kwargs \ {"command"} = ParametersOf(task[t].method)

\* C5 as amended: every request carries the device key and, besides the
\* discriminant, exactly the named parameters its method passes; every
\* request but play_media's carries a command discriminant, and
\* play_media's carries none, only media_url.
C5_EveryRequestButPlayMediaHasDiscriminant ==
    \A t \in Running :
        \A i \in DOMAIN task[t].calls :
            LET req == task[t].calls[i] IN
            /\ req.key = static_info.key
            /\ DOMAIN req.kwargs \ {"command"} = ParametersOf(task[t].method)
            /\ ParametersOf(task[t].method) \subseteq NamedParameters
            /\ ("command" \in DOMAIN req.kwargs) <=>
                   (task[t].method # "async_play_media")

\* A play_media request and a seek request are both submitted.
C5_Witness ==
    \E t, u \in Running :
        /\ task[t].method = "async_play_media" /\ task[t].calls # <<>>
        /\ DOMAIN task[t].calls[1].kwargs = {"media_url"}
        /\ task[u].method = "async_media_seek" /\ task[u].calls # <<>>
        /\ DOMAIN task[u].calls[1].kwargs = {"command", "seek_position"}

\* C9: a failure of the client call is what the method raises, unchanged,
\* after that one request and no other; and an invocation submits the same
\* request whether or not a client call failed before it.
C9_FailurePropagatesWithoutRetry ==
    /\ \A t \in Running :
          LET tk == task[t] IN
          /\ Len(tk.calls) <= 1
          /\ (tk.completed # <<>> /\ tk.completed[1].kind # "return") =>
                /\ tk.pc = "done"
                /\ tk.out = tk.completed[1]
                /\ tk.out.kind \in ClientErrors
                /\ Len(tk.completed) = 1
    /\ \A t, u \in Running :
          ( /\ task[t].method = task[u].method
            /\ task[t].arg = task[u].arg
            /\ task[t].sourced_media = task[u].sourced_media
            /\ task[t].pc = task[u].pc ) =>
                task[t].calls = task[u].calls
    /\ (\E t \in Tasks : task[t].after_failure) => failed

\* One invocation failed in the client; the same command, invoked after
\* that failure, submitted the same request and returned normally.
C9_Witness ==
    \E t, u \in Running :
        /\ task[t].pc = "done" /\ task[t].out.kind = "TimeoutAPIError"
        /\ ~task[t].after_failure
        /\ task[u].after_failure
        /\ task[u].method = task[t].method /\ task[u].arg = task[t].arg
        /\ task[u].pc = "done" /\ task[u].out = Returned(None)
        /\ task[u].calls = task[t].calls

\* C10: requests submitted by two different command methods never carry
\* the same discriminant.
C10_DiscriminantIdentifiesMethod ==
    \A t, u \in Running :
        ( /\ task[t].calls # <<>>
          /\ task[u].calls # <<>>
          /\ task[t].method # task[u].method ) =>
              Discriminant(task[t].calls[1]) # Discriminant(task[u].calls[1])

----------------------------------------------------------------------------
(* Properties of the enum mappers and the properties that use them,        *)
(* checked under SpecProps.                                                *)

\* C7: _STATES and _REPEAT_MODES are one-to-one on the device values in
\* use: a read of state or repeat from a snapshot holding a mapped device
\* value gives a host value, from_hass of that host value is the device
\* value again, and no two device values share a host value.
C7_MappingsRoundTrip ==
    /\ \A v, w \in EspStatesMapped :
          from_esphome(_STATES, v) = from_esphome(_STATES, w) => v = w
    /\ \A v, w \in EspRepeatMapped :
          from_esphome(_REPEAT_MODES, v) = from_esphome(_REPEAT_MODES, w) => v = w
    /\ (ret.prop = "state" /\ has_state /\ _state.state \in EspStatesMapped) =>
          /\ ret.out.kind = "return"
          /\ ret.out.val \in HassStates
          /\ from_hass(_STATES, ret.out.val) = Returned(_state.state)
    /\ (ret.prop = "repeat" /\ has_state
            /\ _state.repeat_mode \in EspRepeatMapped) =>
          /\ ret.out.kind = "return"
          /\ ret.out.val \in HassRepeatModes
          /\ from_hass(_REPEAT_MODES, ret.out.val) = Returned(_state.repeat_mode)

\* state was read from a snapshot holding STANDBY, repeat is mapped too.
C7_Witness ==
    /\ has_state
    /\ ret.prop = "state"
    /\ _state.state = "EspMediaPlayerState.STANDBY"
    /\ ret.out = Returned("standby")
    /\ from_hass(_STATES, "standby") = Returned("EspMediaPlayerState.STANDBY")

\* C8: reading state or repeat from a snapshot whose device value the table
\* lacks fails with UnmappedValueError naming that value; it gives neither
\* None nor any other value.
C8_UnmappedValueRaises ==
    /\ (ret.prop = "state" /\ has_state /\ _state.state \notin EspStatesMapped) =>
          ret.out = Raised("UnmappedValueError", _state.state)
    /\ (ret.prop = "repeat" /\ has_state
            /\ _state.repeat_mode \notin EspRepeatMapped) =>
          ret.out = Raised("UnmappedValueError", _state.repeat_mode)

\* state was read from a snapshot holding the unmapped play-state.
C8_Witness ==
    /\ has_state
    /\ ret.prop = "state"
    /\ _state.state = EspStateUnmapped
    /\ ret.out.kind = "UnmappedValueError"
    /\ ret.out.val = EspStateUnmapped

----------------------------------------------------------------------------
(* Properties of supported_features, checked under SpecFeatures.           *)

\* The feature members each capability stands for.
FeatureBits(c) ==
    CASE c = "supports_pause" -> {"PAUSE"}
      [] c = "supports_seek" -> {"SEEK"}
      [] c = "supports_volume_set" -> {"VOLUME_SET"}
      [] c = "supports_volume_mute" -> {"VOLUME_MUTE"}
      [] c = "supports_previous_track" -> {"PREVIOUS_TRACK"}
      [] c = "supports_next_track" -> {"NEXT_TRACK"}
      [] c = "supports_turn_on" -> {"TURN_ON"}
      [] c = "supports_turn_off" -> {"TURN_OFF"}
      [] c = "supports_play_media" -> {"PLAY_MEDIA", "BROWSE_MEDIA"}
      [] c = "supports_volume_step" -> {"VOLUME_STEP"}
      [] c = "supports_select_source" -> {"SELECT_SOURCE"}
      [] c = "supports_stop" -> {"STOP"}
      [] c = "supports_clear_playlist" -> {"CLEAR_PLAYLIST"}
      [] c = "supports_play" -> {"PLAY"}
      [] c = "supports_shuffle_set" -> {"SHUFFLE_SET"}
      [] c = "supports_select_sound_mode" -> {"SELECT_SOUND_MODE"}
      [] c = "supports_repeat_set" -> {"REPEAT_SET"}

Enabled(info) == { c \in Capabilities : info[c] }

PauseAndPlayMedia ==
    [c \in Capabilities |-> c \in {"supports_pause", "supports_play_media"}]

\* What a read of supported_features gave is the union of the members of
\* the capabilities that are on: nothing for none, PAUSE | PLAY_MEDIA |
\* BROWSE_MEDIA for pause and play_media alone.
FeaturesAreTheUnion ==
    ret.prop = "supported_features" =>
        /\ ret.out = Returned(UNION { FeatureBits(c) : c \in Enabled(static_info) })
        /\ Enabled(static_info) = {} => ret.out.val = {}
        /\ Enabled(static_info) = {"supports_pause", "supports_play_media"} =>
              ret.out.val = {"PAUSE", "PLAY_MEDIA", "BROWSE_MEDIA"}

\* Turning one capability on adds its members and changes no other.
FlipAddsItsBits ==
    \A c \in Capabilities :
        (~static_info[c] /\ static_info' = [static_info EXCEPT ![c] = TRUE]) =>
            /\ supported_features' = supported_features \cup FeatureBits(c)
            /\ supported_features' \ FeatureBits(c) = supported_features
            /\ supported_features \cap FeatureBits(c) = {}

\* C6: for every assignment of the 17 capability booleans,
\* supported_features is exactly the union of the members of the
\* capabilities that are on, and turning one capability on adds exactly its
\* members.
C6_FeatureProjection == [](FeaturesAreTheUnion) /\ [][FlipAddsItsBits]_vars

\* supported_features was read with pause and play_media alone on.
C6_Witness ==
    /\ ret.prop = "supported_features"
    /\ static_info = StaticInfo("key-7", PauseAndPlayMedia)
    /\ ret.out.val = {"PAUSE", "PLAY_MEDIA", "BROWSE_MEDIA"}

====
